---- MODULE Spec2Model ----
(***************************************************************************)
(* Model of the genauo ObjectCounter session store: StorageService and the *)
(* screen handlers that call it (NewSessionScreen.createSession,           *)
(* HomeScreen.deleteSession, SessionScreen.loadSession / deleteImage,      *)
(* ReviewScreen.saveCount -> addImageToSession).                           *)
(*                                                                         *)
(* Every StorageService method is async: it suspends at each               *)
(* `await AsyncStorage.getItem/setItem`.  One action models the code that  *)
(* runs between two awaits, so calls made by different processes           *)
(* interleave exactly at the awaits.                                        *)
(***************************************************************************)
EXTENDS Integers, Sequences, FiniteSets, TLC

\* ---- bounds ------------------------------------------------------------
MaxClock == 1       \* Date.now() ranges over 0..MaxClock
MaxSessions == 2    \* createSession is not started on a longer collection
MaxImages == 2      \* addImageToSession is not started when the collection
                    \* already holds this many images
MaxCalls == 5       \* handler calls made in a behaviour of a single caller
MaxRaceCalls == 3   \* handler calls made in a behaviour in which the second,
                    \* interleaving caller takes part
MaxTaps == 4        \* ReviewScreen handler calls made in a behaviour
MaxRequests == 2    \* detectObjects calls pending at a time
MaxDetected == 2    \* the detector reports at most this many objects
MaxCount == 10      \* the largest count a response of the model states

\* ---- input sets ----------------------------------------------------------
Procs == {1, 2}
RawNames == { <<>>, <<" ">>, <<" ", "a", " ">> }
RawTypes == { <<"w", " ">> }
Paths == { "p1" }
Counts == { 5, 3 }
DetectionLists == { <<>> }
ClockValues == 0..MaxClock
NewCounts == { 3 }
CorrectionValues == { 1 }
TypedTexts == { <<>>, <<"0">>, <<"2">>, <<"5">>, <<"-", "1">> }
ApiKeys == { <<"k">>, <<" ">> }
GoodNames == { <<" ", "a", " ">> }
DetectorCounts == { 0, MaxDetected }
Prefixes == { <<>>, << " " >>, << "-" >>, << "a", " " >> }
Suffixes == { <<>>, << " ", "a" >>, << ".", "5" >> }

Null == [null |-> TRUE]
\* objectType is `objectType.trim() || undefined`, never the empty string:
\* the empty sequence stands for undefined
Undefined == <<>>

\* ---- values ---------------------------------------------------------------
\* new Date() at clock value t, and the string JSON.stringify turns it into
DateOf(t) == [date |-> t]
IsoString(t) == [iso |-> t]

\* String.prototype.trim on a sequence of characters
RECURSIVE TrimStart(_)
TrimStart(s) == IF s # <<>> /\ Head(s) = " " THEN TrimStart(Tail(s)) ELSE s

RECURSIVE TrimEnd(_)
TrimEnd(s) ==
    IF s # <<>> /\ s[Len(s)] = " " THEN TrimEnd(SubSeq(s, 1, Len(s) - 1)) ELSE s

Trim(s) == TrimEnd(TrimStart(s))

\* images.reduce((sum, img) => sum + img.count, 0)
RECURSIVE SumCounts(_)
SumCounts(images) ==
    IF images = <<>> THEN 0 ELSE Head(images).count + SumCounts(Tail(images))

\* s.filter(x => x.id !== id)
RECURSIVE RemoveById(_, _)
RemoveById(s, id) ==
    IF s = <<>> THEN <<>>
    ELSE IF Head(s).id # id THEN <<Head(s)>> \o RemoveById(Tail(s), id)
         ELSE RemoveById(Tail(s), id)

\* Array.prototype.findIndex on the id field, 1-based; 0 stands for -1
FindIndex(s, id) ==
    IF \E i \in 1..Len(s) : s[i].id = id
    THEN CHOOSE i \in 1..Len(s) :
             /\ s[i].id = id
             /\ \A j \in 1..(i - 1) : s[j].id # id
    ELSE 0

\* Array.prototype.find on the id field
FindById(s, id) == IF FindIndex(s, id) = 0 THEN Null ELSE s[FindIndex(s, id)]

\* JSON.stringify: a Date becomes its ISO string; a string stays a string
JsonDate(d) == IF "date" \in DOMAIN d THEN IsoString(d.date) ELSE d

JsonImage(img) == [img EXCEPT !.timestamp = JsonDate(img.timestamp)]

JsonSession(s) ==
    [s EXCEPT !.createdAt = JsonDate(s.createdAt),
              !.images = [i \in 1..Len(s.images) |-> JsonImage(s.images[i])]]

Stringify(sessions) ==
    [present |-> TRUE,
     json |-> [i \in 1..Len(sessions) |-> JsonSession(sessions[i])]]

\* ---- state ----------------------------------------------------------------
VARIABLES
    store,      \* AsyncStorage value under SESSIONS_KEY
    now,        \* Date.now()
    pc,         \* pc[p]: the await at which process p is suspended, or "idle"
    call,       \* call[p]: the call p is running and its arguments
    loc,        \* loc[p]: local variables of the running call
    last,       \* the call that ended last and how it ended
    snap,       \* snap[p]: the stored value the running call read last
    stale,      \* stale[p]: another process wrote after p's last read
    screen,     \* SessionScreen component state
    calls,      \* calls[p]: number of handler calls p has made
    review,     \* ReviewScreen component state and its pending async work
    settings,   \* AsyncStorage value under SETTINGS_KEY
    taps        \* number of ReviewScreen handler calls made

vars == <<store, now, pc, call, loc, last, snap, stale, screen, calls,
          review, settings, taps>>

\* what the session store handlers leave alone
reviewVars == <<review, settings, taps>>

\* ---- StorageService reads ---------------------------------------------
\* a stored text on which JSON.parse throws
Unparsable == << [unparsable |-> TRUE] >>

\* getAllSessions: data ? JSON.parse(data) : [], and [] from the catch
GetAllSessions(st) ==
    IF st.present /\ st.json # Unparsable THEN st.json ELSE <<>>

\* getSession: sessions.find(s => s.id === sessionId) || null
GetSession(st, sessionId) == FindById(GetAllSessions(st), sessionId)

StoredIds(st) == { GetAllSessions(st)[i].id : i \in 1..Len(GetAllSessions(st)) }

RECURSIVE ImageTotal(_)
ImageTotal(sessions) ==
    IF sessions = <<>> THEN 0
    ELSE Len(Head(sessions).images) + ImageTotal(Tail(sessions))

\* ---- initial state --------------------------------------------------------
NoCall == [op |-> "none"]
NoLoc == [none |-> TRUE]
NoData == [present |-> FALSE, json |-> <<>>]
NoResult == [op |-> "none", outcome |-> "none", raced |-> FALSE, found |-> FALSE]

\* getDefaultSettings()
DefaultSettings ==
    [sensitivity |-> "0.7", minObjectSize |-> 20, enableHaptics |-> TRUE,
     enableSound |-> FALSE, autoSave |-> TRUE, theme |-> "dark"]

NoCount == <<>>     \* autoCount === null; a number n is <<n>>
NoKeySave == [at |-> "idle"]
NoRequest == [none |-> TRUE]

\* the useState initial values of ReviewScreen for route.params, with nothing
\* pending but the loadApiKey() of the mount effect
Mounted(sessionId, photoPath) ==
    [mounted |-> TRUE, sessionId |-> sessionId, photoPath |-> photoPath,
     detections |-> <<>>, isProcessing |-> FALSE, manualCorrections |-> 0,
     mode |-> "manual", showApiKeyInput |-> FALSE, apiKey |-> <<>>,
     autoCount |-> NoCount, manualCountInput |-> <<>>,
     alert |-> "none",          \* the 'Count Saved' alert is showing
     requests |-> 0,            \* detectObjects calls not yet resolved
     keyLoad |-> TRUE,          \* loadApiKey is awaiting getSettings
     mlApiKey |-> <<>>,         \* MLService.apiKey
     notice |-> <<>>,           \* alerts raised by the detectObjects call
                                \* that resolved last
     asked |-> NoRequest,       \* mode and detections at the start of the
                                \* processImageWithAI whose call is pending
     keySave |-> NoKeySave]     \* the await saveApiKey is suspended at

\* no ReviewScreen is mounted
Unmounted == [mounted |-> FALSE]

Init ==
    /\ store = NoData
    /\ now = 0
    /\ pc = [p \in Procs |-> "idle"]
    /\ call = [p \in Procs |-> NoCall]
    /\ loc = [p \in Procs |-> NoLoc]
    /\ last = NoResult
    /\ snap = [p \in Procs |-> NoData]
    /\ stale = [p \in Procs |-> FALSE]
    /\ screen = [mounted |-> FALSE, sessionId |-> 0, session |-> Null]
    /\ calls = [p \in Procs |-> 0]
    /\ review = Unmounted
    /\ settings = NoData
    /\ taps = 0

\* ---- bookkeeping shared by the actions ----------------------------------
WritePending == { "create_set", "delete_set", "update_set" }

\* the ReviewScreen is on top of the navigation stack: the handlers of the
\* screens below it cannot be reached
ReviewInFront == review.mounted

\* p may make another call
MayCall(p) ==
    /\ pc[p] = "idle"
    /\ calls[1] + calls[2] <
           (IF p # 1 \/ calls[2] > 0 THEN MaxRaceCalls ELSE MaxCalls)

\* p starts the call c with locals l and suspends at the await s
Begin(p, c, l, s) ==
    /\ MayCall(p)
    /\ calls' = [calls EXCEPT ![p] = @ + 1]
    /\ pc' = [pc EXCEPT ![p] = s]
    /\ call' = [call EXCEPT ![p] = c]
    /\ loc' = [loc EXCEPT ![p] = l]
    /\ last' = NoResult
    /\ UNCHANGED <<snap, stale>>

\* p's await getItem resolves and the call goes on to the await s with locals l
Read(p, l, s) ==
    /\ pc' = [pc EXCEPT ![p] = s]
    /\ loc' = [loc EXCEPT ![p] = l]
    /\ snap' = [snap EXCEPT ![p] = store]
    /\ stale' = [stale EXCEPT ![p] = FALSE]
    /\ UNCHANGED <<call, last, calls>>

\* p's call returns or throws without a (further) write; found tells whether
\* the lookup it made last hit a stored entity
Return(p, outcome, found) ==
    /\ pc' = [pc EXCEPT ![p] = "idle"]
    /\ call' = [call EXCEPT ![p] = NoCall]
    /\ loc' = [loc EXCEPT ![p] = NoLoc]
    /\ last' = [op |-> call[p].op, outcome |-> outcome, raced |-> FALSE,
                found |-> found]
    /\ snap' = [snap EXCEPT ![p] = NoData]
    /\ stale' = [stale EXCEPT ![p] = FALSE]
    /\ UNCHANGED calls

\* p's await setItem resolves and the call returns: every process that read
\* before this write and has not written yet now holds a stale collection
WriteAndReturn(p) ==
    /\ pc' = [pc EXCEPT ![p] = "idle"]
    /\ call' = [call EXCEPT ![p] = NoCall]
    /\ loc' = [loc EXCEPT ![p] = NoLoc]
    /\ last' = [op |-> call[p].op, outcome |-> "ok", raced |-> stale[p],
                found |-> (call[p].op = "deleteSession" =>
                              call[p].sessionId \in StoredIds(snap[p]))]
    /\ snap' = [snap EXCEPT ![p] = NoData]
    /\ stale' = [q \in Procs |-> q # p /\ (stale[q] \/ pc[q] \in WritePending)]
    /\ UNCHANGED calls

\* the number of running calls of op
Running(op) == Cardinality({ q \in Procs : call[q].op = op })

\* ---- clock ------------------------------------------------------------
Tick ==
    /\ now < MaxClock
    /\ now' = now + 1
    /\ UNCHANGED <<store, pc, call, loc, last, snap, stale, screen, calls,
                   reviewVars>>

\* ---- NewSessionScreen.createSession -> StorageService.createSession ------
NameIsEmpty(sessionName) == sessionName = <<>>

\* !sessionName.trim()
NameIsBlank(sessionName) == Trim(sessionName) = <<>>

\* objectType.trim() || undefined
OrUndefined(s) == IF s = <<>> THEN Undefined ELSE s

\* the Session literal of createSession
NewSession(t, name, objectType) ==
    [id |-> t, name |-> name, objectType |-> objectType,
     createdAt |-> DateOf(t), images |-> <<>>, totalCount |-> 0]

PushBack(sessions, session) == Append(sessions, session)

\* sessions.unshift(session)
Unshift(sessions, session) == <<session>> \o sessions

SetItemMerged(st, sessions) ==
    LET known == { sessions[i].id : i \in 1..Len(sessions) }
        others == SelectSeq(GetAllSessions(st), LAMBDA x : x.id \notin known)
    IN  Stringify(sessions \o others)

\* the value handed to AsyncStorage.setItem by a call whose array is `sessions`
SetItemValue(st, sessions) == Stringify(sessions)

\* the handler: validation, then the synchronous head of createSession up to
\* its first await
CreateSession(p, sessionName, objectType) ==
    /\ ~ReviewInFront
    /\ IF NameIsBlank(sessionName)
       THEN /\ MayCall(p)
            /\ calls' = [calls EXCEPT ![p] = @ + 1]
            /\ last' = [op |-> "createSession", outcome |-> "validation",
                        raced |-> FALSE, found |-> FALSE]
            /\ UNCHANGED <<pc, call, loc, snap, stale>>
       ELSE /\ Len(GetAllSessions(store)) + Running("createSession") < MaxSessions
            /\ Begin(p, [op |-> "createSession"],
                     [session |-> NewSession(now, Trim(sessionName),
                                             OrUndefined(Trim(objectType)))],
                     "create_get")
    /\ UNCHANGED <<store, now, screen, reviewVars>>

\* const sessions = await this.getAllSessions(); sessions.unshift(session)
CreateGet(p) ==
    /\ pc[p] = "create_get"
    /\ Read(p, [session |-> loc[p].session,
                sessions |-> Unshift(GetAllSessions(store), loc[p].session)],
            "create_set")
    /\ UNCHANGED <<store, now, screen, reviewVars>>

\* await AsyncStorage.setItem(...); return session
CreateSet(p) ==
    /\ pc[p] = "create_set"
    /\ store' = SetItemValue(store, loc[p].sessions)
    /\ WriteAndReturn(p)
    /\ UNCHANGED <<now, screen, reviewVars>>

\* ---- HomeScreen.deleteSession -> StorageService.deleteSession ------------
DeleteSplice(sessions, sessionId) ==
    LET index == FindIndex(sessions, sessionId)
        at == IF index = 0 THEN Len(sessions) ELSE index
    IN  [i \in 1..(IF sessions = <<>> THEN 0 ELSE Len(sessions) - 1) |->
            IF i < at THEN sessions[i] ELSE sessions[i + 1]]

\* sessions.filter(s => s.id !== sessionId)
DeleteFilter(sessions, sessionId) == RemoveById(sessions, sessionId)

DeleteSession(p, sessionId) ==
    /\ ~ReviewInFront
    /\ Begin(p, [op |-> "deleteSession", sessionId |-> sessionId], NoLoc,
             "delete_get")
    /\ UNCHANGED <<store, now, screen, reviewVars>>

DeleteGet(p) ==
    /\ pc[p] = "delete_get"
    /\ Read(p, [sessions |-> DeleteFilter(GetAllSessions(store),
                                          call[p].sessionId)],
            "delete_set")
    /\ UNCHANGED <<store, now, screen, reviewVars>>

DeleteSet(p) ==
    /\ pc[p] = "delete_set"
    /\ store' = SetItemValue(store, loc[p].sessions)
    /\ WriteAndReturn(p)
    /\ UNCHANGED <<now, screen, reviewVars>>

\* ---- StorageService.updateSession (called by the three callers below) ----
ReplaceOrInsert(sessions, session) ==
    LET index == FindIndex(sessions, session.id)
    IN  IF index > 0
        THEN [found |-> TRUE, sessions |-> [sessions EXCEPT ![index] = session]]
        ELSE [found |-> TRUE, sessions |-> Append(sessions, session)]

ReplaceSessionAtFront(sessions, session) ==
    LET index == FindIndex(sessions, session.id)
    IN  IF index > 0
        THEN [found |-> TRUE,
              sessions |-> << session >> \o SubSeq(sessions, 1, index - 1)
                               \o SubSeq(sessions, index + 1, Len(sessions))]
        ELSE [found |-> FALSE, sessions |-> sessions]

\* index = sessions.findIndex(...); if (index >= 0) sessions[index] = session
ReplaceSession(sessions, session) ==
    LET index == FindIndex(sessions, session.id)
    IN  IF index > 0
        THEN [found |-> TRUE, sessions |-> [sessions EXCEPT ![index] = session]]
        ELSE [found |-> FALSE, sessions |-> sessions]

\* the caller's code after `await StorageService.updateSession(...)`:
\* SessionScreen.deleteImage goes on with setSession(updatedSession),
\* ReviewScreen.saveCount with the 'Count Saved' alert
AfterUpdate(p) ==
    /\ IF call[p].op = "deleteImage"
       THEN screen' = [screen EXCEPT !.session = loc[p].session]
       ELSE UNCHANGED screen
    /\ IF call[p].op = "saveCount" /\ review.mounted
       THEN review' = [review EXCEPT !.alert = "saved"]
       ELSE UNCHANGED review

UpdateGet(p) ==
    /\ pc[p] = "update_get"
    /\ LET r == ReplaceSession(GetAllSessions(store), loc[p].session)
       IN  IF r.found
           THEN /\ Read(p, [session |-> loc[p].session,
                            sessions |-> r.sessions], "update_set")
                /\ UNCHANGED <<screen, review>>
           ELSE /\ Return(p, "ok", FALSE)
                /\ AfterUpdate(p)
    /\ UNCHANGED <<store, now, settings, taps>>

UpdateSet(p) ==
    /\ pc[p] = "update_set"
    /\ store' = SetItemValue(store, loc[p].sessions)
    /\ AfterUpdate(p)
    /\ WriteAndReturn(p)
    /\ UNCHANGED <<now, settings, taps>>

\* ---- StorageService.addImageToSession ------------------------------------
AddImageLookupFirst(st, sessionId) ==
    IF GetSession(st, sessionId) = Null /\ GetAllSessions(st) # <<>>
    THEN Head(GetAllSessions(st))
    ELSE GetSession(st, sessionId)

\* const session = await this.getSession(sessionId)
AddImageLookup(st, sessionId) == GetSession(st, sessionId)

NewImageCountKeepingEdits(t, imagePath, count, detections) ==
    [id |-> t, path |-> imagePath, count |-> count, timestamp |-> DateOf(t),
     corrections |-> Len(detections) + 1, detections |-> detections]

\* the ImageCount literal of addImageToSession
NewImageCount(t, imagePath, count, detections) ==
    [id |-> t, path |-> imagePath, count |-> count, timestamp |-> DateOf(t),
     corrections |-> 0, detections |-> detections]

PushImageStaleTotal(session, imageCount) ==
    [session EXCEPT !.images = Append(session.images, imageCount)]

\* session.images.push(imageCount); session.totalCount = reduce(...)
PushImage(session, imageCount) ==
    LET images == Append(session.images, imageCount)
    IN  [session EXCEPT !.images = images, !.totalCount = SumCounts(images)]

AddImageToSession(p, sessionId, imagePath, count, detections) ==
    /\ ~ReviewInFront
    /\ ImageTotal(GetAllSessions(store)) + Running("addImageToSession")
           < MaxImages
    /\ Begin(p, [op |-> "addImageToSession", sessionId |-> sessionId,
                 imagePath |-> imagePath, count |-> count,
                 detections |-> detections], NoLoc, "add_get")
    /\ UNCHANGED <<store, now, screen, reviewVars>>

AddGet(p) ==
    /\ pc[p] = "add_get"
    /\ LET session == AddImageLookup(store, call[p].sessionId)
       IN  IF session = Null
           THEN Return(p, "notFound", FALSE)
           ELSE Read(p, [session |->
                            PushImage(session,
                                NewImageCount(now, call[p].imagePath,
                                    call[p].count, call[p].detections))],
                     "update_get")
    /\ UNCHANGED <<store, now, screen, reviewVars>>

\* ---- StorageService.updateImageCount -------------------------------------
\* image.count = newCount; image.corrections = corrections; totalCount = ...
SetImageCount(session, imageId, newCount, corrections) ==
    LET index == FindIndex(session.images, imageId)
        images == [session.images EXCEPT
                      ![index] = [@ EXCEPT !.count = newCount,
                                           !.corrections = corrections]]
    IN  [session EXCEPT !.images = images, !.totalCount = SumCounts(images)]

UpdateImageCount(p, sessionId, imageId, newCount, corrections) ==
    /\ ~ReviewInFront
    /\ Begin(p, [op |-> "updateImageCount", sessionId |-> sessionId,
                 imageId |-> imageId, newCount |-> newCount,
                 corrections |-> corrections], NoLoc, "count_get")
    /\ UNCHANGED <<store, now, screen, reviewVars>>

CountGet(p) ==
    /\ pc[p] = "count_get"
    /\ LET session == GetSession(store, call[p].sessionId)
       IN  IF session = Null
           THEN Return(p, "notFound", FALSE)
           ELSE IF FindIndex(session.images, call[p].imageId) = 0
           THEN Return(p, "ok", FALSE)
           ELSE Read(p, [session |->
                            SetImageCount(session, call[p].imageId,
                                call[p].newCount, call[p].corrections)],
                     "update_get")
    /\ UNCHANGED <<store, now, screen, reviewVars>>

\* ---- SessionScreen -------------------------------------------------------
ScreenBusy ==
    \E q \in Procs : call[q].op \in {"loadSession", "deleteImage"}

\* the screen is mounted for route.params.sessionId; useEffect runs loadSession
LoadSession(p, sessionId) ==
    /\ ~ReviewInFront
    /\ ~ScreenBusy
    /\ Begin(p, [op |-> "loadSession", sessionId |-> sessionId], NoLoc,
             "load_get")
    /\ screen' = [mounted |-> TRUE, sessionId |-> sessionId, session |-> Null]
    /\ UNCHANGED <<store, now, reviewVars>>

\* const data = await StorageService.getSession(sessionId); setSession(data)
LoadGet(p) ==
    /\ pc[p] = "load_get"
    /\ screen' = [screen EXCEPT !.session = GetSession(store, screen.sessionId)]
    /\ Return(p, "ok", GetSession(store, screen.sessionId) # Null)
    /\ UNCHANGED <<store, now, reviewVars>>

\* updatedImages / updatedSession of the Delete button's onPress
WithoutImage(session, imageId) ==
    LET updatedImages == RemoveById(session.images, imageId)
    IN  [session EXCEPT !.images = updatedImages,
                        !.totalCount = SumCounts(updatedImages)]

\* onPress of 'Delete' for the i-th rendered image, up to the await inside
\* updateSession
DeleteImage(p, i) ==
    /\ ~ReviewInFront
    /\ screen.mounted
    /\ screen.session # Null
    /\ i \in 1..Len(screen.session.images)
    /\ Begin(p, [op |-> "deleteImage", sessionId |-> screen.session.id,
                 imageId |-> screen.session.images[i].id],
             [session |-> WithoutImage(screen.session,
                                       screen.session.images[i].id)],
             "update_get")
    /\ UNCHANGED <<store, now, screen, reviewVars>>

\* ---- ReviewScreen: text of the manual count field -------------------------
Digits == << "0", "1", "2", "3", "4", "5", "6", "7", "8", "9" >>

IsDigit(c) == \E d \in 1..10 : Digits[d] = c

DigitValue(c) == (CHOOSE d \in 1..10 : Digits[d] = c) - 1

\* Number.prototype.toString of a non-negative integer
RECURSIVE NumberToString(_)
NumberToString(n) ==
    IF n < 10 THEN << Digits[n + 1] >>
    ELSE NumberToString(n \div 10) \o << Digits[(n % 10) + 1] >>

\* the value of the digits at the head of s, read after the digits worth acc
RECURSIVE DigitsValue(_, _)
DigitsValue(s, acc) ==
    IF s # <<>> /\ IsDigit(Head(s))
    THEN DigitsValue(Tail(s), 10 * acc + DigitValue(Head(s)))
    ELSE acc

\* parseInt(text): leading whitespace, an optional sign, then the longest run
\* of digits; NaN when there is no digit
ParseInt(text) ==
    LET s == TrimStart(text)
        signed == s # <<>> /\ Head(s) \in {"-", "+"}
        body == IF signed THEN Tail(s) ELSE s
    IN  IF body = <<>> \/ ~IsDigit(Head(body))
        THEN [nan |-> TRUE, value |-> 0]
        ELSE [nan |-> FALSE,
              value |-> IF signed /\ Head(s) = "-"
                        THEN 0 - DigitsValue(body, 0)
                        ELSE DigitsValue(body, 0)]

\* parseInt(text) || 0
ParseIntOr0(text) == IF ParseInt(text).nan THEN 0 ELSE ParseInt(text).value

\* ---- ReviewScreen: detections --------------------------------------------
\* createManualDetection: the id is manual_<Date.now()>_<Math.random()>, a
\* value no other detection on the screen has; n stands for it
ManualDetection(n) ==
    [id |-> <<"manual", n>>, confidence |-> 1, class |-> "manual",
     manual |-> TRUE]

FloorSqrt(count) ==
    CHOOSE k \in 0..count : k * k <= count /\ (k + 1) * (k + 1) > count

\* Math.ceil(Math.sqrt(count)) of a non-negative integer
CeilSqrt(count) ==
    CHOOSE k \in 0..count : k * k >= count /\ (k = 0 \/ (k - 1) * (k - 1) < count)

\* Math.ceil(count / cols) for cols > 0
CeilDiv(count, cols) == (count + cols - 1) \div cols

\* the object literal pushed for index at (row, col)
Placeholder(index, row, col) ==
    [id |-> <<"obj", index>>,
     bbox |-> [x |-> 50 + (col * 100), y |-> 50 + (row * 100),
               width |-> 60, height |-> 60],
     confidence |-> 1, class |-> "object", manual |-> FALSE]

\* for (row = 0; row < rows && index < count; row++)
\*   for (col = 0; col < cols && index < count; col++) { push; index++ }
RECURSIVE PlaceholderLoop(_, _, _, _, _, _, _)
PlaceholderLoop(count, cols, rows, row, col, index, detections) ==
    IF ~(row < rows /\ index < count) THEN detections
    ELSE IF ~(col < cols /\ index < count)
    THEN PlaceholderLoop(count, cols, rows, row + 1, 0, index, detections)
    ELSE PlaceholderLoop(count, cols, rows, row, col + 1, index + 1,
                         Append(detections, Placeholder(index, row, col)))

\* generatePlaceholderDetections(count): obj_0 .. obj_<count-1> laid out on a
\* grid; for count 0 rows is 0/0 = NaN and for a negative count cols is NaN,
\* and a comparison with NaN ends the loop at once
Placeholders(count) ==
    IF count <= 0 THEN <<>>
    ELSE PlaceholderLoop(count, CeilSqrt(count),
                         CeilDiv(count, CeilSqrt(count)), 0, 0, 0, <<>>)

DetectionIds ==
    { <<"manual", n>> : n \in 1..MaxTaps } \cup
    { <<"obj", i>> : i \in 0..(MaxDetected - 1) }

\* a number that stands for no id among detections
FreshIn(detections) ==
    CHOOSE n \in 1..(Len(detections) + 1) :
        \A i \in 1..Len(detections) : detections[i].id # <<"manual", n>>

\* ---- ReviewScreen: settings ------------------------------------------------
\* a stored text on which JSON.parse throws
UnparsableSettings == [unparsable |-> TRUE]

GetSettingsUncaught(st) == IF st.present THEN st.json ELSE DefaultSettings

\* getSettings: data ? JSON.parse(data) : getDefaultSettings(), and
\* getDefaultSettings() from the catch
GetSettings(st) ==
    IF st.present /\ st.json # UnparsableSettings
    THEN st.json ELSE DefaultSettings

\* getSettings when AsyncStorage.getItem rejects: the catch
GetSettingsCaught == DefaultSettings

\* settings.openaiApiKey, undefined being the empty text
OpenaiApiKey(s) ==
    IF "openaiApiKey" \in DOMAIN s THEN s.openaiApiKey ELSE <<>>

\* { ...settings, openaiApiKey: apiKey }
WithApiKey(s, apiKey) ==
    [sensitivity |-> s.sensitivity, minObjectSize |-> s.minObjectSize,
     enableHaptics |-> s.enableHaptics, enableSound |-> s.enableSound,
     autoSave |-> s.autoSave, theme |-> s.theme, openaiApiKey |-> apiKey]

\* ---- ReviewScreen: handlers -------------------------------------------------
sessionVars == <<store, now, pc, call, loc, last, snap, stale, screen, calls>>

\* NewSessionScreen.createSession has returned a session and replaced itself
\* by the camera, which does navigation.navigate('Review', { photoPath,
\* sessionId }); the mount effect starts loadApiKey()
MountReview(sessionId, photoPath) ==
    /\ review = Unmounted
    /\ \A p \in Procs : pc[p] = "idle"
    /\ last.op = "createSession" /\ last.outcome = "ok"
    /\ GetAllSessions(store) # <<>>
    /\ sessionId = Head(GetAllSessions(store)).id
    /\ review' = Mounted(sessionId, photoPath)
    /\ UNCHANGED <<sessionVars, settings, taps>>

\* the handler op runs and ends with outcome: the screen is in front and no
\* alert is up; found tells whether there was anything it could have changed,
\* raced whether it ran while a detectObjects call was pending
Tap(op, outcome, found) ==
    /\ review.mounted
    /\ review.alert = "none"
    /\ taps < MaxTaps
    /\ taps' = taps + 1
    /\ last' = [op |-> op, outcome |-> outcome, raced |-> review.requests > 0,
                found |-> found]
    /\ UNCHANGED <<store, now, pc, call, loc, snap, stale, screen, calls,
                   settings>>

\* the API key modal covers the screen while showApiKeyInput
OnScreen(op, outcome, found) ==
    Tap(op, outcome, found) /\ ~review.showApiKeyInput

OnModal(op, outcome, found) ==
    Tap(op, outcome, found) /\ review.showApiKeyInput

\* the workflow holds detections or corrections
HasEdits(r) == r.detections # <<>> \/ r.manualCorrections > 0

\* loadApiKey after its await: if (settings.openaiApiKey) setApiKey(...)
LoadedKey(r, s) ==
    [r EXCEPT !.keyLoad = FALSE,
              !.apiKey = IF OpenaiApiKey(s) # <<>> THEN OpenaiApiKey(s) ELSE @,
              !.mlApiKey = IF OpenaiApiKey(s) # <<>> THEN OpenaiApiKey(s)
                           ELSE @]

LoadKeyGet ==
    /\ review.mounted
    /\ review.keyLoad
    /\ review' = LoadedKey(review, GetSettings(settings))
    /\ UNCHANGED <<sessionVars, settings, taps>>

AddPointStaleLength(r) ==
    [r EXCEPT !.detections = Append(@, ManualDetection(FreshIn(@))),
              !.manualCorrections = @ + 1,
              !.manualCountInput = NumberToString(Len(r.detections))]

\* the body of handleImagePress under its if
AddPoint(r) ==
    [r EXCEPT !.detections = Append(@, ManualDetection(FreshIn(@))),
              !.manualCorrections = @ + 1,
              !.manualCountInput = NumberToString(Len(r.detections) + 1)]

\* if (mode === 'manual' && !isProcessing)
AcceptsPoint(r) == r.mode = "manual" /\ ~r.isProcessing

HandleImagePress ==
    /\ OnScreen("handleImagePress",
                IF AcceptsPoint(review) THEN "added" ELSE "rejected",
                HasEdits(review))
    /\ review' = IF AcceptsPoint(review) THEN AddPoint(review) ELSE review

\* the body of removeDetection
RemovePoint(r, id) ==
    LET newDetections == RemoveById(r.detections, id)
    IN  [r EXCEPT !.detections = newDetections,
                  !.manualCorrections = @ + 1,
                  !.manualCountInput =
                      IF r.mode = "manual"
                      THEN NumberToString(Len(newDetections)) ELSE @]

\* removeDetection(id); no rendered element calls it, the handler is modelled
\* as the remove-point operation of the workflow
RemoveDetection(id) ==
    /\ OnScreen("removeDetection", "removed", HasEdits(review))
    /\ review' = RemovePoint(review, id)

\* the body of handleManualCountChange
TypedCount(r, text) ==
    LET count == ParseIntOr0(text)
    IN  IF count > 0 /\ count # Len(r.detections)
        THEN [r EXCEPT !.manualCountInput = text, !.detections = <<>>,
                       !.manualCorrections = 0]
        ELSE [r EXCEPT !.manualCountInput = text]

\* onChangeText of the count field, which is rendered in manual mode only
HandleManualCountChange(text) ==
    /\ OnScreen("handleManualCountChange",
                IF TypedCount(review, text).detections = review.detections
                   /\ TypedCount(review, text).manualCorrections =
                          review.manualCorrections
                THEN "kept" ELSE "cleared",
                HasEdits(review))
    /\ review.mode = "manual"
    /\ review' = TypedCount(review, text)

ClearedKeepingAutoCount(r) ==
    [r EXCEPT !.detections = <<>>, !.manualCorrections = 0,
              !.manualCountInput = <<>>]

\* the body of clearAll
Cleared(r) ==
    [r EXCEPT !.detections = <<>>, !.manualCorrections = 0,
              !.autoCount = NoCount, !.manualCountInput = <<>>]

ClearAll ==
    /\ OnScreen("clearAll", "ok", HasEdits(review))
    /\ review' = Cleared(review)

\* processImageWithAI() run by a render in which the key is apiKey, up to its
\* return or its `await MLService.detectObjects(...)`
StartDetection(r, apiKey) ==
    IF apiKey = <<>>
    THEN [r EXCEPT !.detections = <<>>, !.showApiKeyInput = TRUE,
                   !.isProcessing = FALSE]
    ELSE [r EXCEPT !.detections = <<>>, !.isProcessing = TRUE,
                   !.requests = @ + 1, !.notice = <<>>,
                   !.asked = [mode |-> r.mode, detections |-> r.detections]]

SwitchToManual ==
    /\ OnScreen("switchToManual", "ok", HasEdits(review))
    /\ review' = Cleared([review EXCEPT !.mode = "manual"])

SwitchToAuto ==
    /\ OnScreen("switchToAuto", "ok", HasEdits(review))
    /\ review.requests < MaxRequests
    /\ review' = StartDetection(Cleared([review EXCEPT !.mode = "auto"]),
                                review.apiKey)

\* the Recount button: rendered in auto mode, disabled while isProcessing
Recount ==
    /\ OnScreen("processImageWithAI", "ok", HasEdits(review))
    /\ review.mode = "auto"
    /\ ~review.isProcessing
    /\ review.requests < MaxRequests
    /\ review' = StartDetection(review, review.apiKey)

ResolvedStillProcessing(r, detectedObjects) ==
    [r EXCEPT !.detections = detectedObjects,
              !.autoCount = << Len(detectedObjects) >>,
              !.requests = @ - 1,
              !.notice = IF Len(detectedObjects) = 0
                         THEN << "No Objects Detected" >> ELSE <<>>,
              !.asked = IF r.requests = 1 THEN NoRequest ELSE @]

\* processImageWithAI after its await: setDetections, setAutoCount and the
\* finally block
Resolved(r, detectedObjects) ==
    [r EXCEPT !.detections = detectedObjects,
              !.autoCount = << Len(detectedObjects) >>,
              !.isProcessing = FALSE, !.requests = @ - 1,
              !.notice = IF Len(detectedObjects) = 0
                         THEN << "No Objects Detected" >> ELSE <<>>,
              !.asked = IF r.requests = 1 THEN NoRequest ELSE @]

\* a pending detectObjects call resolves with the placeholders of the count
\* that callOpenAIVision returned
DetectResolve(count) ==
    /\ review.mounted
    /\ review.requests > 0
    /\ review.mlApiKey # <<>>
    /\ review' = Resolved(review, Placeholders(count))
    /\ UNCHANGED <<sessionVars, settings, taps>>

\* detectObjects after one of its alerts: return []
ResolvedAfterAlert(r, alert) ==
    [Resolved(r, <<>>) EXCEPT !.notice = << alert >> \o @]

\* a pending detectObjects call fails (the file is missing, fetch rejects, the
\* response is not ok or has no content): its catch raises the alert
\* 'Detection Error' and returns []
DetectFails ==
    /\ review.mounted
    /\ review.requests > 0
    /\ review.mlApiKey # <<>>
    /\ review' = ResolvedAfterAlert(review, "Detection Error")
    /\ UNCHANGED <<sessionVars, settings, taps>>

\* a pending detectObjects call finds MLService without a key: it raises the
\* alert 'API Key Required' and returns []
DetectNoKey ==
    /\ review.mounted
    /\ review.requests > 0
    /\ review.mlApiKey = <<>>
    /\ review' = ResolvedAfterAlert(review, "API Key Required")
    /\ UNCHANGED <<sessionVars, settings, taps>>

\* onChangeText of the modal's key field
SetApiKey(key) ==
    /\ OnModal("setApiKey", "ok", FALSE)
    /\ review' = [review EXCEPT !.apiKey = key]

\* 'Use Manual' of the modal: setShowApiKeyInput(false); switchToManual()
UseManual ==
    /\ OnModal("switchToManual", "ok", HasEdits(review))
    /\ review' = Cleared([review EXCEPT !.showApiKeyInput = FALSE,
                                        !.mode = "manual"])

\* 'Save Key' of the modal: MLService.setApiKey(apiKey), then up to
\* `await StorageService.getSettings()`; the
\* running call keeps the mode and apiKey of the render that started it
SaveApiKey ==
    /\ OnModal("saveApiKey",
               IF Trim(review.apiKey) = <<>> THEN "validation" ELSE "ok", FALSE)
    /\ review.keySave = NoKeySave
    /\ review' = IF Trim(review.apiKey) = <<>> THEN review
                 ELSE [review EXCEPT !.mlApiKey = review.apiKey,
                                     !.keySave =
                          [at |-> "get", mode |-> review.mode,
                           apiKey |-> review.apiKey]]

\* getSettings resolved with s; saveApiKey goes on to `await saveSettings(...)`
SaveKeyRead(r, s) ==
    [r EXCEPT !.keySave = [at |-> "set", mode |-> r.keySave.mode,
                           apiKey |-> r.keySave.apiKey, settings |-> s]]

SaveKeyGet ==
    /\ review.mounted
    /\ review.keySave.at = "get"
    /\ review' = SaveKeyRead(review, GetSettings(settings))
    /\ UNCHANGED <<sessionVars, settings, taps>>

\* saveSettings resolved: setShowApiKeyInput(false) and, when the mode was
\* auto, processImageWithAI()
SaveKeySet ==
    /\ review.mounted
    /\ review.keySave.at = "set"
    /\ settings' = [present |-> TRUE,
                    json |-> WithApiKey(review.keySave.settings,
                                        review.keySave.apiKey)]
    /\ LET r == [review EXCEPT !.keySave = NoKeySave,
                               !.showApiKeyInput = FALSE]
       IN  review' = IF review.keySave.mode = "auto"
                     THEN StartDetection(r, review.keySave.apiKey) ELSE r
    /\ UNCHANGED <<sessionVars, taps>>

\* the disabled condition of the Save Count button
SaveDisabled(r) ==
    \/ r.isProcessing
    \/ IF r.mode = "auto" THEN Len(r.detections) = 0
       ELSE Trim(r.manualCountInput) = <<>>

ResolvedCountOfDetections(r) == Len(r.detections)

\* const count = mode === 'manual' ? parseInt(manualCountInput) || 0
\*                                 : detections.length
ResolvedCount(r) ==
    IF r.mode = "manual" THEN ParseIntOr0(r.manualCountInput)
    ELSE Len(r.detections)

\* if (mode === 'manual' && count === 0)
CommitRejected(r) == r.mode = "manual" /\ ResolvedCount(r) = 0

CommitCallWithoutDetections(r) ==
    [op |-> "saveCount", sessionId |-> r.sessionId, imagePath |-> r.photoPath,
     count |-> ResolvedCount(r), detections |-> <<>>]

\* the arguments of StorageService.addImageToSession(sessionId, photoPath,
\* count, detections) in saveCount
CommitCall(r) ==
    [op |-> "saveCount", sessionId |-> r.sessionId, imagePath |-> r.photoPath,
     count |-> ResolvedCount(r), detections |-> r.detections]

\* saveCount up to its return or the first await inside addImageToSession;
\* the second process stands for a press made while the first call is pending
SaveCount(p) ==
    /\ review.mounted
    /\ review.alert = "none"
    /\ ~review.showApiKeyInput
    /\ ~SaveDisabled(review)
    /\ p = 1 \/ pc[1] # "idle"
    /\ taps < MaxTaps
    /\ taps' = taps + 1
    /\ IF CommitRejected(review)
       THEN /\ MayCall(p)
            /\ calls' = [calls EXCEPT ![p] = @ + 1]
            /\ last' = [op |-> "saveCount", outcome |-> "validation",
                        raced |-> FALSE, found |-> FALSE]
            /\ UNCHANGED <<pc, call, loc, snap, stale>>
       ELSE /\ ImageTotal(GetAllSessions(store)) + Running("saveCount")
                   < MaxImages
            /\ Begin(p, CommitCall(review), NoLoc, "add_get")
    /\ UNCHANGED <<store, now, screen, review, settings>>

\* 'Add Another Image' of the alert: navigate('Camera') returns to the camera
\* below and the screen is gone
Discarded == [mounted |-> FALSE, discarded |-> TRUE]

AddAnotherImage ==
    /\ review.mounted
    /\ review.alert = "saved"
    /\ review' = Discarded
    /\ UNCHANGED <<sessionVars, settings, taps>>

\* 'View Session' of the alert: navigate('Session') puts the session screen on
\* top, and its back button returns to this screen as it was left
ViewSession ==
    /\ review.mounted
    /\ review.alert = "saved"
    /\ review' = [review EXCEPT !.alert = "none"]
    /\ UNCHANGED <<sessionVars, settings, taps>>

\* ---- AsyncStorage failures ------------------------------------------------
\* the text under SESSIONS_KEY is replaced by one JSON.parse throws on
CorruptSessions ==
    /\ store # [present |-> TRUE, json |-> Unparsable]
    /\ store' = [present |-> TRUE, json |-> Unparsable]
    /\ UNCHANGED <<now, pc, call, loc, last, snap, stale, screen, calls,
                   reviewVars>>

\* the text under SETTINGS_KEY is replaced by one JSON.parse throws on
CorruptSettings ==
    /\ settings # [present |-> TRUE, json |-> UnparsableSettings]
    /\ settings' = [present |-> TRUE, json |-> UnparsableSettings]
    /\ UNCHANGED <<sessionVars, review, taps>>

\* getAllSessions when AsyncStorage.getItem rejects: the catch returns []
GetAllSessionsCaught == <<>>

\* getSession when the getItem inside getAllSessions rejects
GetSessionCaught(sessionId) == FindById(GetAllSessionsCaught, sessionId)

\* p's await getItem rejects and the call goes on to the await s with locals l
ReadFailed(p, l, s) ==
    /\ pc' = [pc EXCEPT ![p] = s]
    /\ loc' = [loc EXCEPT ![p] = l]
    /\ snap' = [snap EXCEPT ![p] = NoData]
    /\ stale' = [stale EXCEPT ![p] = FALSE]
    /\ UNCHANGED <<call, last, calls>>

\* createSession when the read of its getAllSessions() fails
CreateGetFails(p) ==
    /\ pc[p] = "create_get"
    /\ ReadFailed(p, [session |-> loc[p].session,
                      sessions |-> Unshift(GetAllSessionsCaught,
                                           loc[p].session)],
                  "create_set")
    /\ UNCHANGED <<store, now, screen, reviewVars>>

\* deleteSession when the read of its getAllSessions() fails
DeleteGetFails(p) ==
    /\ pc[p] = "delete_get"
    /\ ReadFailed(p, [sessions |-> DeleteFilter(GetAllSessionsCaught,
                                                call[p].sessionId)],
                  "delete_set")
    /\ UNCHANGED <<store, now, screen, reviewVars>>

\* updateSession when the read of its getAllSessions() fails: index is -1
UpdateGetFails(p) ==
    /\ pc[p] = "update_get"
    /\ ~ReplaceSession(GetAllSessionsCaught, loc[p].session).found
    /\ Return(p, "ok", FALSE)
    /\ AfterUpdate(p)
    /\ UNCHANGED <<store, now, settings, taps>>

\* addImageToSession when the read of its getSession() fails
AddGetFails(p) ==
    /\ pc[p] = "add_get"
    /\ GetSessionCaught(call[p].sessionId) = Null
    /\ Return(p, "notFound", FALSE)
    /\ UNCHANGED <<store, now, screen, reviewVars>>

\* SessionScreen.loadSession when the read of its getSession() fails
LoadGetFails(p) ==
    /\ pc[p] = "load_get"
    /\ screen' = [screen EXCEPT !.session = GetSessionCaught(screen.sessionId)]
    /\ Return(p, "ok", FALSE)
    /\ UNCHANGED <<store, now, reviewVars>>

\* loadApiKey when the read of getSettings() fails
LoadKeyGetFails ==
    /\ review.mounted
    /\ review.keyLoad
    /\ review' = LoadedKey(review, GetSettingsCaught)
    /\ UNCHANGED <<sessionVars, settings, taps>>

\* saveApiKey when the read of getSettings() fails
SaveKeyGetFails ==
    /\ review.mounted
    /\ review.keySave.at = "get"
    /\ review' = SaveKeyRead(review, GetSettingsCaught)
    /\ UNCHANGED <<sessionVars, settings, taps>>

WriteFailsUnnoticed(p) ==
    /\ store' = store
    /\ Return(p, "ok", TRUE)

\* p's await setItem rejects: nothing is stored, no method of StorageService
\* catches the rejection and it reaches the handler that made the call
WriteFails(p) ==
    /\ store' = store
    /\ Return(p, "error", TRUE)

CreateSetFails(p) ==
    /\ pc[p] = "create_set"
    /\ WriteFails(p)
    /\ UNCHANGED <<now, screen, reviewVars>>

DeleteSetFails(p) ==
    /\ pc[p] = "delete_set"
    /\ WriteFails(p)
    /\ UNCHANGED <<now, screen, reviewVars>>

\* updateSession's setItem rejects: the code after the caller's
\* `await StorageService.updateSession(...)` does not run
UpdateSetFails(p) ==
    /\ pc[p] = "update_set"
    /\ WriteFails(p)
    /\ UNCHANGED <<now, screen, reviewVars>>

\* saveSettings rejects inside saveApiKey, which has no catch: the modal stays
SaveKeySetFails ==
    /\ review.mounted
    /\ review.keySave.at = "set"
    /\ review' = [review EXCEPT !.keySave = NoKeySave]
    /\ UNCHANGED <<sessionVars, settings, taps>>

\* ---- MLService.detectObjects -----------------------------------------------
\* the content of the model's answer: the count written as a number, with or
\* without text around it, or no number at all
ResponseTexts ==
    { pre \o NumberToString(n) \o post :
          n \in 0..MaxCount, pre \in Prefixes, post \in Suffixes }
        \cup { <<>>, << "n", "o" >> }

\* what `await fetch(...)` and the reading of the response end with
Responses ==
    { [kind |-> "rejected"], [kind |-> "status"], [kind |-> "noContent"] }
        \cup { [kind |-> "ok", content |-> t] : t \in ResponseTexts }

\* const result = content.trim(); count = parseInt(result, 10).  parseInt does
\* not throw, so the catch with result.match(/\d+/) never runs and a text that
\* does not start with a number gives NaN
ExtractCount(content) == ParseInt(Trim(content))

\* generatePlaceholderDetections applied to the number callOpenAIVision
\* returned: for NaN cols and rows are NaN and the loops do not run
GeneratePlaceholderDetections(count) ==
    IF count.nan THEN <<>> ELSE Placeholders(count.value)

\* detectObjects returns detections to its caller; what it was given and what
\* it raised are kept with the result
DetectReturn(p, outcome, alert, content, count, detections) ==
    /\ pc' = [pc EXCEPT ![p] = "idle"]
    /\ call' = [call EXCEPT ![p] = NoCall]
    /\ loc' = [loc EXCEPT ![p] = NoLoc]
    /\ last' = [op |-> "detectObjects", outcome |-> outcome, raced |-> FALSE,
                found |-> detections # <<>>, alert |-> alert,
                content |-> content, count |-> count,
                detections |-> detections]
    /\ snap' = [snap EXCEPT ![p] = NoData]
    /\ stale' = [stale EXCEPT ![p] = FALSE]

NoNumber == [nan |-> TRUE, value |-> 0]

\* detectObjects up to `await FileSystem.getInfoAsync(imagePath)`; hasKey
\* tells whether setApiKey has given MLService a key
DetectObjects(p, hasKey) ==
    /\ MayCall(p)
    /\ calls' = [calls EXCEPT ![p] = @ + 1]
    /\ IF hasKey
       THEN /\ pc' = [pc EXCEPT ![p] = "detect_file"]
            /\ call' = [call EXCEPT ![p] = [op |-> "detectObjects"]]
            /\ last' = NoResult
            /\ UNCHANGED <<loc, snap, stale>>
       ELSE DetectReturn(p, "noKey", "API Key Required", <<>>, NoNumber, <<>>)
    /\ UNCHANGED <<store, now, screen, reviewVars>>

\* getInfoAsync resolves: a missing file throws into the catch; otherwise the
\* file is read and the request is sent
DetectFile(p, exists) ==
    /\ pc[p] = "detect_file"
    /\ IF exists
       THEN /\ pc' = [pc EXCEPT ![p] = "detect_fetch"]
            /\ UNCHANGED <<call, loc, last, snap, stale>>
       ELSE DetectReturn(p, "error", "Detection Error", <<>>, NoNumber, <<>>)
    /\ UNCHANGED <<store, now, screen, calls, reviewVars>>

\* callOpenAIVision after its fetch, and the rest of detectObjects
DetectFetch(p, response) ==
    /\ pc[p] = "detect_fetch"
    /\ IF response.kind = "ok"
       THEN DetectReturn(p, "ok", "none", response.content,
                ExtractCount(response.content),
                GeneratePlaceholderDetections(ExtractCount(response.content)))
       ELSE DetectReturn(p, "error", "Detection Error", <<>>, NoNumber, <<>>)
    /\ UNCHANGED <<store, now, screen, calls, reviewVars>>

\* ---- StorageService.exportSessionAsCSV -----------------------------------
\* a number inside a template literal
StringOfNumber(n) ==
    IF n < 0 THEN << "-" >> \o NumberToString(0 - n) ELSE NumberToString(n)

\* a stored timestamp inside a template literal: JSON.parse leaves the ISO
\* string that JSON.stringify wrote, which holds no comma and no line break
StringOfTimestamp(ts) ==
    IF "iso" \in DOMAIN ts
    THEN << "T" >> \o NumberToString(ts.iso) \o << "Z" >>
    ELSE << "D" >> \o NumberToString(ts.date)

\* the id `img_${Date.now()}` of the image that the model names by its clock
\* value
StringOfImageId(id) == << "img_" >> \o NumberToString(id)

\* `${img.id},${img.count},${img.timestamp},${img.corrections}\n`
CsvRow(img) ==
    StringOfImageId(img.id) \o << "," >> \o StringOfNumber(img.count)
        \o << "," >> \o StringOfTimestamp(img.timestamp)
        \o << "," >> \o StringOfNumber(img.corrections) \o << "\n" >>

RECURSIVE CsvRowsReversed(_)
CsvRowsReversed(images) ==
    IF images = <<>> THEN <<>>
    ELSE CsvRowsReversed(Tail(images)) \o CsvRow(Head(images))

\* session.images.forEach(img => { csv += ... })
RECURSIVE CsvRows(_)
CsvRows(images) ==
    IF images = <<>> THEN <<>>
    ELSE CsvRow(Head(images)) \o CsvRows(Tail(images))

\* the text exportSessionAsCSV builds for session, as a sequence of pieces
SessionCsv(session) ==
    << "Image ID", ",", "Count", ",", "Timestamp", ",", "Corrections", "\n" >>
        \o CsvRows(session.images)
        \o << "\n", "Total Count:", "," >> \o StringOfNumber(session.totalCount)
        \o << "\n" >>

\* exportSessionAsCSV up to `await this.getSession(sessionId)`
ExportSessionAsCSV(p, sessionId) ==
    /\ Begin(p, [op |-> "exportSessionAsCSV", sessionId |-> sessionId],
             NoLoc, "export_get")
    /\ UNCHANGED <<store, now, screen, reviewVars>>

\* getSession resolves: 'Session not found' is thrown, or the text is returned
ExportGet(p) ==
    /\ pc[p] = "export_get"
    /\ LET session == GetSession(store, call[p].sessionId)
       IN  IF session = Null
           THEN Return(p, "notFound", FALSE)
           ELSE /\ pc' = [pc EXCEPT ![p] = "idle"]
                /\ call' = [call EXCEPT ![p] = NoCall]
                /\ loc' = [loc EXCEPT ![p] = NoLoc]
                /\ last' = [op |-> "exportSessionAsCSV", outcome |-> "ok",
                            raced |-> FALSE, found |-> TRUE,
                            sessionId |-> call[p].sessionId,
                            csv |-> SessionCsv(session)]
                /\ snap' = [snap EXCEPT ![p] = NoData]
                /\ stale' = [stale EXCEPT ![p] = FALSE]
                /\ UNCHANGED calls
    /\ UNCHANGED <<store, now, screen, reviewVars>>

\* ---- next-state relation -------------------------------------------------
\* a single logical caller: one call at a time, every handler
SeqNext ==
    \/ Tick
    \/ \E n \in RawNames, t \in RawTypes : CreateSession(1, n, t)
    \/ CreateGet(1)
    \/ CreateSet(1)
    \/ \E id \in ClockValues : DeleteSession(1, id)
    \/ DeleteGet(1)
    \/ DeleteSet(1)
    \/ \E id \in ClockValues, path \in Paths, c \in Counts,
          d \in DetectionLists : AddImageToSession(1, id, path, c, d)
    \/ AddGet(1)
    \/ UpdateGet(1)
    \/ UpdateSet(1)
    \/ \E id \in ClockValues, img \in ClockValues, c \in NewCounts,
          k \in CorrectionValues : UpdateImageCount(1, id, img, c, k)
    \/ CountGet(1)
    \/ \E id \in ClockValues : LoadSession(1, id)
    \/ LoadGet(1)
    \/ \E i \in 1..MaxImages : DeleteImage(1, i)

SeqSpec == Init /\ [][SeqNext]_vars

\* two callers whose repository mutations (createSession, deleteSession,
\* addImageToSession and the updateSession inside it) interleave at the awaits
Next ==
    \/ Tick
    \/ \E p \in Procs, n \in RawNames, t \in RawTypes : CreateSession(p, n, t)
    \/ \E p \in Procs : CreateGet(p)
    \/ \E p \in Procs : CreateSet(p)
    \/ \E p \in Procs, id \in ClockValues : DeleteSession(p, id)
    \/ \E p \in Procs : DeleteGet(p)
    \/ \E p \in Procs : DeleteSet(p)
    \/ \E p \in Procs, id \in ClockValues, path \in Paths, c \in Counts,
          d \in DetectionLists : AddImageToSession(p, id, path, c, d)
    \/ \E p \in Procs : AddGet(p)
    \/ \E p \in Procs : UpdateGet(p)
    \/ \E p \in Procs : UpdateSet(p)

Spec == Init /\ [][Next]_vars

\* the review of one photo: a session is created, the ReviewScreen is opened
\* for it and its handlers run; Save Count may be pressed again while the
\* first saveCount is suspended inside addImageToSession
ReviewNext ==
    \/ \E n \in GoodNames, t \in RawTypes : CreateSession(1, n, t)
    \/ CreateGet(1)
    \/ CreateSet(1)
    \/ \E id \in ClockValues, path \in Paths : MountReview(id, path)
    \/ LoadKeyGet
    \/ HandleImagePress
    \/ \E id \in DetectionIds : RemoveDetection(id)
    \/ \E text \in TypedTexts : HandleManualCountChange(text)
    \/ ClearAll
    \/ SwitchToManual
    \/ SwitchToAuto
    \/ Recount
    \/ \E count \in DetectorCounts : DetectResolve(count)
    \/ DetectFails
    \/ DetectNoKey
    \/ \E key \in ApiKeys : SetApiKey(key)
    \/ UseManual
    \/ SaveApiKey
    \/ SaveKeyGet
    \/ SaveKeySet
    \/ \E p \in Procs : SaveCount(p)
    \/ \E p \in Procs : AddGet(p)
    \/ \E p \in Procs : UpdateGet(p)
    \/ \E p \in Procs : UpdateSet(p)
    \/ AddAnotherImage
    \/ ViewSession

\* the settings hold no key yet, or the key a previous review saved
ReviewInit ==
    /\ store = NoData
    /\ now = 0
    /\ pc = [p \in Procs |-> "idle"]
    /\ call = [p \in Procs |-> NoCall]
    /\ loc = [p \in Procs |-> NoLoc]
    /\ last = NoResult
    /\ snap = [p \in Procs |-> NoData]
    /\ stale = [p \in Procs |-> FALSE]
    /\ screen = [mounted |-> FALSE, sessionId |-> 0, session |-> Null]
    /\ calls = [p \in Procs |-> 0]
    /\ review = Unmounted
    /\ settings \in { NoData,
                       [present |-> TRUE,
                        json |-> WithApiKey(DefaultSettings, << "k" >>)] }
    /\ taps = 0

ReviewSpec == ReviewInit /\ [][ReviewNext]_vars

\* the detectObjects promise a processImageWithAI is awaiting settles
DetectorReturns ==
    \/ \E count \in DetectorCounts : DetectResolve(count)
    \/ DetectFails
    \/ DetectNoKey

\* the review when every detectObjects call eventually returns: detectObjects
\* catches what its awaits throw, so its promise settles once they do
ReviewLiveSpec == ReviewInit /\ [][ReviewNext]_vars /\ WF_vars(DetectorReturns)

\* a single caller whose reads and writes of AsyncStorage may fail and whose
\* stored texts may be replaced by unparsable ones
FaultNext ==
    \/ \E n \in GoodNames, t \in RawTypes : CreateSession(1, n, t)
    \/ CreateGet(1)
    \/ CreateGetFails(1)
    \/ CreateSet(1)
    \/ CreateSetFails(1)
    \/ \E id \in ClockValues : DeleteSession(1, id)
    \/ DeleteGet(1)
    \/ DeleteGetFails(1)
    \/ DeleteSet(1)
    \/ DeleteSetFails(1)
    \/ \E id \in ClockValues, path \in Paths, c \in Counts,
          d \in DetectionLists : AddImageToSession(1, id, path, c, d)
    \/ AddGet(1)
    \/ AddGetFails(1)
    \/ UpdateGet(1)
    \/ UpdateGetFails(1)
    \/ UpdateSet(1)
    \/ UpdateSetFails(1)
    \/ \E id \in ClockValues : LoadSession(1, id)
    \/ LoadGet(1)
    \/ LoadGetFails(1)
    \/ CorruptSessions
    \/ CorruptSettings
    \/ \E id \in ClockValues, path \in Paths : MountReview(id, path)
    \/ LoadKeyGet
    \/ LoadKeyGetFails
    \/ SwitchToAuto
    \/ \E key \in ApiKeys : SetApiKey(key)
    \/ SaveApiKey
    \/ SaveKeyGet
    \/ SaveKeyGetFails
    \/ SaveKeySet
    \/ SaveKeySetFails

FaultSpec == Init /\ [][FaultNext]_vars

\* calls of MLService.detectObjects, one at a time
DetectorNext ==
    \/ \E hasKey \in BOOLEAN : DetectObjects(1, hasKey)
    \/ \E exists \in BOOLEAN : DetectFile(1, exists)
    \/ \E response \in Responses : DetectFetch(1, response)

DetectorSpec == Init /\ [][DetectorNext]_vars

\* sessions are filled and edited by a single caller and exported
ExportNext ==
    \/ Tick
    \/ \E n \in GoodNames, t \in RawTypes : CreateSession(1, n, t)
    \/ CreateGet(1)
    \/ CreateSet(1)
    \/ \E id \in ClockValues, path \in Paths, c \in Counts,
          d \in DetectionLists : AddImageToSession(1, id, path, c, d)
    \/ AddGet(1)
    \/ UpdateGet(1)
    \/ UpdateSet(1)
    \/ \E id \in ClockValues, img \in ClockValues, c \in NewCounts,
          k \in CorrectionValues : UpdateImageCount(1, id, img, c, k)
    \/ CountGet(1)
    \/ \E id \in ClockValues : ExportSessionAsCSV(1, id)
    \/ ExportGet(1)

ExportSpec == Init /\ [][ExportNext]_vars

\* ---- properties ----------------------------------------------------------
Stored == GetAllSessions(store)

\* p's call returns in this step
Returns(p) == pc[p] # "idle" /\ pc'[p] = "idle"

\* C1: every stored session's totalCount is the sum of the counts of its
\* images
C1_TotalCountIsSum ==
    \A i \in 1..Len(Stored) : Stored[i].totalCount = SumCounts(Stored[i].images)

C1_Witness ==
    /\ last.op \in {"addImageToSession", "updateImageCount", "deleteImage"}
    /\ last.outcome = "ok"
    /\ \E i \in 1..Len(Stored) :
           Len(Stored[i].images) = 2 /\ Stored[i].totalCount >= 3

\* what p's call makes of the collection sn it read
Recomputed(p, sn) ==
    CASE call[p].op = "createSession" ->
             <<loc[p].session>> \o GetAllSessions(sn)
      [] call[p].op = "deleteSession" ->
             SelectSeq(GetAllSessions(sn),
                       LAMBDA x : x.id # call[p].sessionId)
      [] OTHER ->
             [i \in 1..Len(GetAllSessions(sn)) |->
                 IF i = FindIndex(GetAllSessions(sn), loc[p].session.id)
                 THEN loc[p].session ELSE GetAllSessions(sn)[i]]

\* C2: when a mutation writes after another mutation has written since its
\* read, the stored collection becomes exactly the later writer's value, which
\* is its own update applied to the collection as it was read before the
\* earlier write: the earlier writer's update is not merged into it
C2_LastWriteWins ==
    [][\A p \in Procs :
          (pc[p] \in WritePending /\ Returns(p) /\ stale[p]) =>
              /\ store' = Stringify(loc[p].sessions)
              /\ store' = Stringify(Recomputed(p, snap[p]))]_vars

C2_Witness == last.raced /\ last.outcome = "ok"

\* C3: deleting an image from the SessionScreen removes exactly that image from
\* the stored session: the other images stored at that time stay, in order, and
\* the stored session is unchanged when the image id is not stored
C3_RemovesExactlyThatImage ==
    [][\A p \in Procs :
          (call[p].op = "deleteImage" /\ Returns(p)
              /\ GetSession(store, call[p].sessionId) # Null) =>
              /\ GetSession(store', call[p].sessionId) # Null
              /\ GetSession(store', call[p].sessionId).images =
                     SelectSeq(GetSession(store, call[p].sessionId).images,
                               LAMBDA x : x.id # call[p].imageId)]_vars

\* C4: no two stored sessions have the same id
C4_SessionIdsUnique ==
    \A i, j \in 1..Len(Stored) : Stored[i].id = Stored[j].id => i = j

\* C5: no stored session holds two images with the same id
C5_ImageIdsUnique ==
    \A k \in 1..Len(Stored) :
        \A i, j \in 1..Len(Stored[k].images) :
            Stored[k].images[i].id = Stored[k].images[j].id => i = j

OnlySpaces(s) == \A i \in 1..Len(s) : s[i] = " "

\* C6: creating a session under a name that is empty after trimming ends with
\* the validation error, starts no storage call and leaves the store as it is
C6_BlankNameRejected ==
    [][\A p \in Procs, n \in RawNames, t \in RawTypes :
          (OnlySpaces(n) /\ CreateSession(p, n, t)) =>
              /\ last'.op = "createSession"
              /\ last'.outcome = "validation"
              /\ pc'[p] = "idle"
              /\ store' = store]_vars

C6_Witness ==
    /\ last.op = "createSession"
    /\ last.outcome = "validation"
    /\ Stored # <<>>

\* C7: when createSession returns, the new session, with no images and
\* totalCount 0, is stored at the front of the collection; the stored
\* collection is always ordered most recently created first
C7_CreatedAtFront ==
    /\ [][\A p \in Procs :
             (call[p].op = "createSession" /\ Returns(p)) =>
                 /\ last'.outcome = "ok"
                 /\ loc[p].session.images = <<>>
                 /\ loc[p].session.totalCount = 0
                 /\ GetAllSessions(store') # <<>>
                 /\ GetAllSessions(store')[1] = JsonSession(loc[p].session)]_vars
    /\ [](\A i, j \in 1..Len(Stored) :
             i < j => Stored[i].createdAt.iso >= Stored[j].createdAt.iso)

C7_Witness ==
    /\ last.op = "createSession"
    /\ last.outcome = "ok"
    /\ Len(Stored) = 2
    /\ Stored[1].createdAt.iso > Stored[2].createdAt.iso
    /\ Stored[2].images # <<>>

\* p is inside updateSession, its read resolves in this step and no stored
\* session has the id of the session it was given
UpdateOfMissing(p) ==
    /\ pc[p] = "update_get"
    /\ pc'[p] # "update_get"
    /\ loc[p].session.id \notin StoredIds(store)

\* C8 as claimed: updateSession of a session whose id is not stored fails with
\* a not-found error and leaves the stored collection unchanged
C8_MissingIdFails ==
    [][\A p \in Procs :
          UpdateOfMissing(p) =>
              last'.outcome = "notFound" /\ store' = store]_vars

\* C8 amended: updateSession of a session whose id is not stored returns
\* without an error and without a write, the stored collection unchanged
C8_MissingIdIgnored ==
    [][\A p \in Procs :
          UpdateOfMissing(p) =>
              /\ pc'[p] = "idle"
              /\ last'.outcome = "ok"
              /\ store' = store]_vars

C8_Witness ==
    /\ last.op \in {"addImageToSession", "deleteImage"}
    /\ last.outcome = "ok"
    /\ ~last.found

\* C9: deleteSession returns without an error, no session with the id is stored
\* afterwards, and when none was stored before (as after a first deleteSession
\* of that id) the stored sessions are the same as before
C9_DeleteIdempotent ==
    [][\A p \in Procs :
          (call[p].op = "deleteSession" /\ Returns(p)) =>
              /\ last'.outcome = "ok"
              /\ call[p].sessionId \notin StoredIds(store')
              /\ (call[p].sessionId \notin StoredIds(store) =>
                      GetAllSessions(store') = GetAllSessions(store))]_vars

C9_Witness ==
    /\ last.op = "deleteSession"
    /\ last.outcome = "ok"
    /\ ~last.found
    /\ Stored # <<>>

\* C10: addImageToSession for a session id that is not stored throws the
\* not-found error at its first read, before any write: the store is unchanged
C10_AddToMissingSession ==
    [][\A p \in Procs :
          (pc[p] = "add_get" /\ pc'[p] # "add_get"
              /\ call[p].sessionId \notin StoredIds(store)) =>
              /\ pc'[p] = "idle"
              /\ last'.op = "addImageToSession"
              /\ last'.outcome = "notFound"
              /\ store' = store]_vars

C10_Witness ==
    /\ last.op = "addImageToSession"
    /\ last.outcome = "notFound"
    /\ Stored # <<>>

\* C11: an addImageToSession call that returns after its write has put exactly
\* one new image at the end of the session's images, with the given path, count
\* and detections and corrections 0; the earlier images are unchanged and in
\* their order, totalCount has grown by count, and getSession returns all this
C11_AppendsOneImage ==
    [][\A p \in Procs :
          (call[p].op = "addImageToSession" /\ pc[p] = "update_set"
              /\ Returns(p)) =>
              LET before == GetSession(store, call[p].sessionId)
                  after == GetSession(store', call[p].sessionId)
                  n == Len(after.images)
              IN  /\ before # Null
                  /\ after # Null
                  /\ n = Len(before.images) + 1
                  /\ SubSeq(after.images, 1, n - 1) = before.images
                  /\ after.images[n].path = call[p].imagePath
                  /\ after.images[n].count = call[p].count
                  /\ after.images[n].detections = call[p].detections
                  /\ after.images[n].corrections = 0
                  /\ after.totalCount = before.totalCount + call[p].count]_vars

C11_Witness ==
    /\ last.op = "addImageToSession"
    /\ last.outcome = "ok"
    /\ \E i \in 1..Len(Stored) :
           /\ Len(Stored[i].images) = 2
           /\ Stored[i].images[1].count = 5
           /\ Stored[i].images[2].count = 3
           /\ Stored[i].totalCount = 8

\* C12: a read of the store that fails, or that finds a text JSON.parse throws
\* on, raises nothing: getAllSessions yields the empty sequence, getSession
\* yields null and getSettings the default settings, and the call that made
\* the read goes on with that value
C12_ReadFailureAbsorbed ==
    /\ [](store.json = Unparsable =>
             /\ GetAllSessions(store) = <<>>
             /\ \A id \in ClockValues : GetSession(store, id) = Null)
    /\ [](settings.json = UnparsableSettings =>
             GetSettings(settings) = DefaultSettings)
    /\ [][\A p \in Procs :
             /\ (CreateGetFails(p) \/ (store.json = Unparsable /\ CreateGet(p)))
                    => /\ pc'[p] = "create_set"
                       /\ loc'[p].sessions = << loc[p].session >>
             /\ (DeleteGetFails(p) \/ (store.json = Unparsable /\ DeleteGet(p)))
                    => /\ pc'[p] = "delete_set"
                       /\ loc'[p].sessions = <<>>
             /\ (UpdateGetFails(p) \/ (store.json = Unparsable /\ UpdateGet(p)))
                    => /\ Returns(p)
                       /\ last'.outcome = "ok"
                       /\ store' = store
             /\ (AddGetFails(p) \/ (store.json = Unparsable /\ AddGet(p)))
                    => /\ Returns(p)
                       /\ last'.outcome = "notFound"
             /\ (LoadGetFails(p) \/ (store.json = Unparsable /\ LoadGet(p)))
                    => /\ Returns(p)
                       /\ last'.outcome = "ok"
                       /\ screen'.session = Null]_vars
    /\ [][/\ (LoadKeyGetFails
                 \/ (settings.json = UnparsableSettings /\ LoadKeyGet))
                => review' = [review EXCEPT !.keyLoad = FALSE]
          /\ (SaveKeyGetFails
                 \/ (settings.json = UnparsableSettings /\ SaveKeyGet))
                => /\ review'.keySave.at = "set"
                   /\ review'.keySave.settings = DefaultSettings]_vars

\* createSession goes on with [] although a session is stored: its read failed
C12_Witness ==
    /\ GetAllSessions(store) # <<>>
    /\ pc[1] = "create_set"
    /\ loc[1].sessions = << loc[1].session >>
    /\ settings.json = UnparsableSettings
    /\ last = NoResult

\* C13: when the write of the store fails in createSession, updateSession,
\* deleteSession or addImageToSession, the call ends with the error reaching
\* its caller, not with success, and the stored collection is as it was
C13_WriteFailureReported ==
    [][\A p \in Procs :
          (CreateSetFails(p) \/ DeleteSetFails(p) \/ UpdateSetFails(p)) =>
              /\ store' = store
              /\ Returns(p)
              /\ last'.op = call[p].op
              /\ last'.outcome = "error"
              /\ screen' = screen
              /\ review' = review]_vars

C13_Witness ==
    /\ last.op = "addImageToSession"
    /\ last.outcome = "error"
    /\ Len(Stored) = 1
    /\ Stored[1].images = <<>>
    /\ Stored[1].totalCount = 0

\* C14: the review starts with no detections and corrections 0; in manual mode
\* every add-point and every remove-point raises corrections by exactly one and
\* leaves the count field holding detections.length written as a string, so
\* after n such operations corrections is n (three adds and one remove: two
\* detections, field "2", corrections 4)
C14_TapCountInSync ==
    /\ [][\A id \in ClockValues, path \in Paths :
             MountReview(id, path) =>
                 /\ review'.detections = <<>>
                 /\ review'.manualCorrections = 0
                 /\ review'.mode = "manual"]_vars
    /\ [][(review.mounted /\ HandleImagePress /\ review.mode = "manual"
              /\ ~review.isProcessing) =>
             /\ Len(review'.detections) = Len(review.detections) + 1
             /\ review'.manualCorrections = review.manualCorrections + 1
             /\ review'.manualCountInput =
                    NumberToString(Len(review'.detections))]_vars
    /\ [][\A id \in DetectionIds :
             (review.mounted /\ RemoveDetection(id)
                 /\ review.mode = "manual") =>
                 /\ review'.detections =
                        SelectSeq(review.detections, LAMBDA d : d.id # id)
                 /\ review'.manualCorrections = review.manualCorrections + 1
                 /\ review'.manualCountInput =
                        NumberToString(Len(review'.detections))]_vars

C14_Witness ==
    /\ review.mounted
    /\ review.mode = "manual"
    /\ last.op = "removeDetection"
    /\ taps = 4
    /\ review.manualCorrections = 4
    /\ Len(review.detections) = 2
    /\ review.manualCountInput = <<"2">>

\* the count field is typed into: it holds the typed text afterwards, and the
\* detections and corrections are untouched when the text parses to the number
\* of detections
TypedTextKept(text) ==
    (review.mounted /\ HandleManualCountChange(text)) =>
        /\ review'.manualCountInput = text
        /\ (~ParseInt(text).nan
               /\ ParseInt(text).value = Len(review.detections)) =>
               /\ review'.detections = review.detections
               /\ review'.manualCorrections = review.manualCorrections

\* setManualCountInput in handleImagePress and removeDetection clears nothing
SyncClearsNothing ==
    /\ (review.mounted /\ HandleImagePress /\ last'.outcome = "added") =>
           /\ SubSeq(review'.detections, 1, Len(review.detections)) =
                  review.detections
           /\ review'.manualCorrections > 0
    /\ \A id \in DetectionIds :
           (review.mounted /\ RemoveDetection(id)) =>
               /\ review'.manualCorrections > 0
               /\ \A i \in 1..Len(review.detections) :
                      review.detections[i].id # id =>
                          \E j \in 1..Len(review'.detections) :
                              review'.detections[j] = review.detections[i]

\* C15: typing a text that parses to a nonzero number other than
\* detections.length empties detections and sets corrections to 0; typing the
\* number of detections changes neither; the field holds the typed text, and
\* the syncing of the field by add and remove clears nothing
C15_TypedNonzeroClears ==
    [][/\ \A text \in TypedTexts :
             /\ TypedTextKept(text)
             /\ (review.mounted /\ HandleManualCountChange(text)
                    /\ ~ParseInt(text).nan
                    /\ ParseInt(text).value # 0
                    /\ ParseInt(text).value # Len(review.detections)) =>
                    /\ review'.detections = <<>>
                    /\ review'.manualCorrections = 0
       /\ SyncClearsNothing]_vars

C17_CommitAppendsWorkflow ==
    /\ [][\A p \in Procs :
             (review.mounted /\ SaveCount(p) /\ pc'[p] = "add_get") =>
                 /\ call'[p].sessionId = review.sessionId
                 /\ call'[p].imagePath = review.photoPath
                 /\ call'[p].count = ResolvedCount(review)
                 /\ call'[p].detections = review.detections]_vars
    /\ [][\A p \in Procs :
             (call[p].op = "saveCount" /\ pc[p] = "update_set"
                 /\ Returns(p)) =>
                 LET after == GetSession(store', call[p].sessionId)
                     n == Len(after.images)
                 IN  /\ last'.outcome = "ok"
                     /\ after # Null
                     /\ n > 0
                     /\ after.images[n].path = call[p].imagePath
                     /\ after.images[n].count = call[p].count
                     /\ after.images[n].detections = call[p].detections]_vars

C17_Witness ==
    /\ last.op = "saveCount"
    /\ last.outcome = "ok"
    /\ \E i \in 1..Len(Stored) :
           /\ Len(Stored[i].images) = 1
           /\ Stored[i].images[1].path = "p1"
           /\ Stored[i].images[1].count = 1
           /\ Len(Stored[i].images[1].detections) = 1
           /\ Stored[i].images[1].detections[1].manual

\* the images stored under the path
RECURSIVE ImagesOfPath(_, _)
ImagesOfPath(sessions, path) ==
    IF sessions = <<>> THEN 0
    ELSE Len(SelectSeq(Head(sessions).images, LAMBDA img : img.path = path))
             + ImagesOfPath(Tail(sessions), path)

\* C18: the review of one photo stores at most one image: no two stored images
\* have the photoPath of the same ReviewScreen
C18_OneImagePerReview ==
    \A path \in Paths : ImagesOfPath(Stored, path) <= 1

\* C19: when the screen was switched to manual mode while a detectObjects call
\* was pending, the result of the call is dropped when it arrives: no field of
\* the screen changes but the busy flag of the request that has ended
C19_LateResultDropped ==
    [][\A count \in DetectorCounts :
          (/\ review.mounted
           /\ review.mode = "manual"
           /\ last.op = "switchToManual"
           /\ last.raced
           /\ DetectResolve(count)) =>
              review' = [review EXCEPT
                            !.isProcessing = review'.isProcessing,
                            !.requests = review'.requests,
                            !.notice = review'.notice,
                            !.asked = review'.asked]]_vars

\* C20: while a detectObjects call is pending, add-point, remove-point and the
\* two mode switches leave detections and corrections as they are
C20_RejectedWhileProcessing ==
    [][(/\ review.mounted
        /\ review.isProcessing
        /\ \/ HandleImagePress
           \/ \E id \in DetectionIds : RemoveDetection(id)
           \/ SwitchToManual
           \/ SwitchToAuto) =>
          /\ review'.detections = review.detections
          /\ review'.manualCorrections = review.manualCorrections]_vars

\* the alerts raised by the detectObjects call that resolved last
Notices(r) == { r.notice[i] : i \in 1..Len(r.notice) }

\* C21: when the one pending detectObjects call fails (MLService has no key,
\* the network or the API fails) and the mode is the one the request was made
\* in, the mode and the detections afterwards are those of the moment at which
\* the request was made, also when it was a recount over existing detections
C21_FailureKeepsState ==
    [][(/\ review.mounted
        /\ review.requests = 1
        /\ review.mode = review.asked.mode
        /\ DetectFails \/ DetectNoKey) =>
          /\ review'.mode = review.asked.mode
          /\ review'.detections = review.asked.detections]_vars

\* C22: a detectObjects call that fails is reported as a detection error and
\* not as a run that found nothing: autoCount does not become 0 and the
\* 'No Objects Detected' outcome is not reported
C22_FailureDistinguished ==
    [][(review.mounted /\ DetectFails) =>
          /\ "Detection Error" \in Notices(review')
          /\ "No Objects Detected" \notin Notices(review')
          /\ review'.autoCount # << 0 >>]_vars

\* C28: when the detectObjects call of a recount resolves with n placeholders,
\* detections are these placeholders and corrections is 0, whatever
\* corrections had been counted before the recount
C28_RecountReplaces ==
    [][\A count \in DetectorCounts :
          (/\ review.mounted
           /\ review.mode = "auto"
           /\ last.op = "processImageWithAI"
           /\ review.requests = 1
           /\ DetectResolve(count)) =>
              /\ review'.detections = Placeholders(count)
              /\ review'.manualCorrections = 0]_vars

\* the first run of digits in text, as result.match(/\d+/) finds it
RECURSIVE FirstRunOfDigits(_)
FirstRunOfDigits(text) ==
    IF text = <<>> THEN [found |-> FALSE, value |-> 0]
    ELSE IF IsDigit(Head(text)) THEN [found |-> TRUE, value |-> DigitsValue(text, 0)]
    ELSE FirstRunOfDigits(Tail(text))

\* text is an optional sign followed by digits only
IsIntegerText(text) ==
    LET body == IF text # <<>> /\ Head(text) \in {"-", "+"} THEN Tail(text) ELSE text
    IN  body # <<>> /\ \A i \in 1..Len(body) : IsDigit(body[i])

\* the least k with k * k >= n
GridColumns(n) == CHOOSE k \in 0..n : k * k >= n /\ \A j \in 0..(k - 1) : j * j < n

\* the least r with r * columns >= n
GridRows(n) == CHOOSE r \in 0..n : r * GridColumns(n) >= n /\ \A j \in 0..(r - 1) : j * GridColumns(n) < n

\* C23: for a reported count n >= 0 detectObjects returns exactly n
\* placeholders with pairwise distinct ids, confidence 1 and manual false;
\* placeholder i (0-indexed) is in row i div columns and column i mod columns
\* of a grid of columns = ceil(sqrt(n)) by rows = ceil(n / columns) cells of
\* 100 pixels: 4 by 3 for n = 10, and no placeholder for n = 0
C23_PlaceholderGrid ==
    (last.op = "detectObjects" /\ last.outcome = "ok" /\ ~last.count.nan
        /\ last.count.value >= 0) =>
        LET n == last.count.value
            d == last.detections
        IN  /\ Len(d) = n
            /\ \A i, j \in 1..n : d[i].id = d[j].id => i = j
            /\ \A i \in 1..n :
                  /\ d[i].id = <<"obj", i - 1>>
                  /\ d[i].confidence = 1
                  /\ d[i].manual = FALSE
                  /\ d[i].bbox.x = 50 + (100 * ((i - 1) % GridColumns(n)))
                  /\ d[i].bbox.y = 50 + (100 * ((i - 1) \div GridColumns(n)))
                  /\ (i - 1) \div GridColumns(n) < GridRows(n)
            /\ (n = 10 => GridColumns(n) = 4 /\ GridRows(n) = 3
                            /\ d[4].bbox.x = 350 /\ d[9].bbox.y = 250)
            /\ (n = 0 => d = <<>>)

\* a response of "10" has been laid out: the last placeholder is in row 2,
\* column 1
C23_Witness ==
    /\ last.op = "detectObjects"
    /\ last.outcome = "ok"
    /\ last.count = [nan |-> FALSE, value |-> 10]
    /\ Len(last.detections) = 10
    /\ last.detections[10].bbox.x = 150
    /\ last.detections[10].bbox.y = 250

\* C24: the count taken from a response is a non-negative integer: the value
\* of the text when the text is an integer, else the first run of digits in
\* it, else 0
C24_CountExtracted ==
    (last.op = "detectObjects" /\ last.outcome = "ok") =>
        LET text == Trim(last.content)
        IN  /\ ~last.count.nan
            /\ last.count.value >= 0
            /\ last.count.value =
                  IF IsIntegerText(text) THEN ParseInt(text).value
                  ELSE FirstRunOfDigits(text).value

\* the lines of a text given as a sequence of pieces, each line without the
\* line break that ends it
RECURSIVE LinesOf(_, _)
LinesOf(text, line) ==
    IF text = <<>> THEN (IF line = <<>> THEN <<>> ELSE << line >>)
    ELSE IF Head(text) = "\n" THEN << line >> \o LinesOf(Tail(text), <<>>)
    ELSE LinesOf(Tail(text), Append(line, Head(text)))

\* the pieces of a line, joined by commas
RECURSIVE Joined(_)
Joined(fields) ==
    IF Len(fields) = 1 THEN Head(fields)
    ELSE Head(fields) \o << "," >> \o Joined(Tail(fields))

\* C25: exportSessionAsCSV of a stored session returns the header line
\* 'Image ID,Count,Timestamp,Corrections', one line 'id,count,timestamp,
\* corrections' per image in the order of session.images, an empty line and
\* the line 'Total Count:,<totalCount>', every line ended by a line break;
\* for images with counts 5 and 3 the last line is 'Total Count:,8'
C25_CsvLayout ==
    (last.op = "exportSessionAsCSV" /\ last.outcome = "ok") =>
        LET session == GetSession(store, last.sessionId)
            images == session.images
            n == Len(images)
            lines == LinesOf(last.csv, <<>>)
        IN  /\ last.csv[Len(last.csv)] = "\n"
            /\ Len(lines) = n + 3
            /\ lines[1] = Joined(<< << "Image ID" >>, << "Count" >>,
                                    << "Timestamp" >>, << "Corrections" >> >>)
            /\ \A i \in 1..n :
                  lines[i + 1] =
                      Joined(<< << "img_" >> \o NumberToString(images[i].id),
                                NumberToString(images[i].count),
                                << "T" >> \o NumberToString(images[i].timestamp.iso)
                                    \o << "Z" >>,
                                NumberToString(images[i].corrections) >>)
            /\ lines[n + 2] = <<>>
            /\ lines[n + 3] = << "Total Count:", "," >>
                                  \o NumberToString(session.totalCount)
            /\ (n = 2 /\ images[1].count = 5 /\ images[2].count = 3
                    => lines[n + 3] = << "Total Count:", ",", "8" >>)

\* a session with a first image of count 5 and a second, corrected image of
\* count 3 has been exported
C25_Witness ==
    /\ last.op = "exportSessionAsCSV"
    /\ last.outcome = "ok"
    /\ LET images == GetSession(store, last.sessionId).images
       IN  /\ Len(images) = 2
           /\ images[1].count = 5 /\ images[1].corrections = 0
           /\ images[2].count = 3 /\ images[2].corrections = 1
           /\ images[1].id # images[2].id
    /\ LinesOf(last.csv, <<>>)[5] = << "Total Count:", ",", "8" >>

\* C26: clearAll and switchToManual, from any state of the screen, leave
\* detections empty, corrections 0 and autoCount null; clearAll leaves the mode
\* as it is and switchToManual sets it to manual
C26_ClearResets ==
    [][/\ (review.mounted /\ ClearAll) =>
              /\ review'.detections = <<>>
              /\ review'.manualCorrections = 0
              /\ review'.autoCount = NoCount
              /\ review'.mode = review.mode
       /\ (review.mounted /\ (SwitchToManual \/ UseManual)) =>
              /\ review'.detections = <<>>
              /\ review'.manualCorrections = 0
              /\ review'.autoCount = NoCount
              /\ review'.mode = "manual"]_vars

\* clearAll has run in automatic mode on a screen that held detections and an
\* automatic count
C26_Witness ==
    /\ review.mounted
    /\ last.op = "clearAll"
    /\ last.found
    /\ review.mode = "auto"
    /\ review.detections = <<>>
    /\ review.manualCorrections = 0
    /\ review.autoCount = NoCount
    /\ ~review.isProcessing

\* C27: switchToAuto with an API key at hand, from either mode, sets the mode
\* to auto, empties detections, sets corrections to 0 and starts a
\* detectObjects call; the screen is processing for as long as a call it has
\* started has not resolved
C27_SwitchToAutoProcesses ==
    /\ [][(review.mounted /\ SwitchToAuto /\ review.apiKey # <<>>) =>
             /\ review'.mode = "auto"
             /\ review'.detections = <<>>
             /\ review'.manualCorrections = 0
             /\ review'.requests = review.requests + 1
             /\ review'.isProcessing]_vars
    /\ []((review.mounted /\ review.requests > 0) => review.isProcessing)

\* C29: a detectObjects call that resolves in automatic mode with n detections
\* leaves autoCount n and n detections, and autoCount keeps its value through
\* switchToManual and through the points added and removed afterwards
C29_AutoCountPersists ==
    [][/\ \A count \in DetectorCounts :
             (review.mounted /\ review.mode = "auto"
                 /\ DetectResolve(count)) =>
                 /\ review'.autoCount = << count >>
                 /\ Len(review'.detections) = count
       /\ (/\ review.mounted
           /\ review.autoCount # NoCount
           /\ \/ SwitchToManual
              \/ HandleImagePress
              \/ \E id \in DetectionIds : RemoveDetection(id)) =>
              review'.autoCount = review.autoCount]_vars

\* C30: every image stored by Save Count has a count of at least 1
C30_StoredCountPositive ==
    \A i \in 1..Len(Stored) :
        \A j \in 1..Len(Stored[i].images) : Stored[i].images[j].count >= 1

\* C31: every stored ImageCount has count = detections.length or an empty
\* detections list
C31_CountMatchesDetections ==
    \A i \in 1..Len(Stored) :
        \A j \in 1..Len(Stored[i].images) :
            \/ Stored[i].images[j].count = Len(Stored[i].images[j].detections)
            \/ Stored[i].images[j].detections = <<>>

\* C32: while the review is mounted at most one detectObjects call is pending,
\* and isProcessing is true whenever one is
C32_ProcessingTracksRequests ==
    review.mounted =>
        /\ review.requests <= 1
        /\ review.requests > 0 => review.isProcessing

\* C35: no step of a mounted review makes manualCorrections smaller
C35_CorrectionsMonotonic ==
    [][(review.mounted /\ review'.mounted) =>
          review'.manualCorrections >= review.manualCorrections]_vars

\* C36: in automatic mode with no call pending, add-point appends one detection
\* and remove-point deletes the selected one, and each raises corrections by
\* one
C36_EditsInAutoMode ==
    /\ [][(review.mounted /\ review.mode = "auto" /\ ~review.isProcessing
              /\ HandleImagePress) =>
             /\ Len(review'.detections) = Len(review.detections) + 1
             /\ SubSeq(review'.detections, 1, Len(review.detections))
                    = review.detections
             /\ review'.manualCorrections = review.manualCorrections + 1]_vars
    /\ [][\A id \in DetectionIds :
             (review.mounted /\ review.mode = "auto" /\ ~review.isProcessing
                 /\ RemoveDetection(id)) =>
                 /\ review'.detections =
                        SelectSeq(review.detections, LAMBDA d : d.id # id)
                 /\ review'.manualCorrections
                        = review.manualCorrections + 1]_vars

\* C34: while MLService holds no key, AI Count and Recount open the API key
\* modal and leave isProcessing false; when the key typed into the modal has
\* been saved by a saveApiKey started in automatic mode a detectObjects call is
\* started; 'Use Manual' closes the modal and leaves manual mode with no
\* detections
C34_MissingKeyPrompts ==
    /\ [][(review.mounted /\ review.mlApiKey = <<>>
              /\ (SwitchToAuto \/ Recount)) =>
             /\ review'.showApiKeyInput
             /\ ~review'.isProcessing]_vars
    /\ [][(review.mounted /\ SaveKeySet /\ review.keySave.mode = "auto") =>
             /\ review'.requests = review.requests + 1
             /\ review'.isProcessing
             /\ ~review'.showApiKeyInput]_vars
    /\ [][(review.mounted /\ UseManual) =>
             /\ review'.mode = "manual"
             /\ review'.detections = <<>>
             /\ ~review'.showApiKeyInput]_vars

\* C33: whenever the mounted review is processing, it later is not: each
\* detectObjects call that returns, with detections or after a failure, ends
\* the processing state, and a request without a key never enters it
C33_ProcessingEnds ==
    (review.mounted /\ review.isProcessing)
        ~> (~review.mounted \/ ~review.isProcessing)

\* a detectObjects call has returned and the review is no longer processing
C33_Witness ==
    /\ review.mounted
    /\ review.autoCount # NoCount
    /\ review.requests = 0
    /\ ~review.isProcessing

\* C37: when addImageToSession returns without an error, the session is stored
\* and holds the ImageCount the call made, whatever deleteSession calls ran
\* between its awaits
C37_AddedImageStored ==
    [][\A p \in Procs :
          (call[p].op = "addImageToSession" /\ Returns(p)
              /\ last'.outcome = "ok") =>
              LET made == loc[p].session.images[Len(loc[p].session.images)]
                  after == GetSession(store', call[p].sessionId)
              IN  /\ after # Null
                  /\ \E j \in 1..Len(after.images) :
                         after.images[j] = JsonImage(made)]_vars

\* C38: when createSession returns, the stored collection is the new session
\* followed by the sessions that were stored before, unchanged and in their
\* order, also when the read inside createSession failed
C38_CreateKeepsSessions ==
    [][\A p \in Procs :
          (call[p].op = "createSession" /\ Returns(p) /\ last'.outcome = "ok"
              /\ store.json # Unparsable) =>
              GetAllSessions(store')
                  = << JsonSession(loc[p].session) >> \o GetAllSessions(store)]_vars

\* C39: the write of updateSession(session) puts the given value, as
\* JSON.stringify writes it, at the position of the stored session with the
\* same id and leaves every other position as it was; the write of
\* deleteSession(id) leaves exactly the sessions with another id, in their
\* order
C39_OnlyTargetChanges ==
    /\ [][\A p \in Procs :
             (pc[p] = "update_set" /\ Returns(p)) =>
                 LET given == loc[p].session
                 IN  \E k \in 1..Len(Stored) :
                         /\ Stored[k].id = given.id
                         /\ \A j \in 1..(k - 1) : Stored[j].id # given.id
                         /\ GetAllSessions(store')
                                = [Stored EXCEPT ![k] = JsonSession(given)]
                         /\ GetAllSessions(store')[k].totalCount
                                = given.totalCount]_vars
    /\ [][\A p \in Procs :
             (pc[p] = "delete_set" /\ Returns(p)) =>
                 GetAllSessions(store')
                     = SelectSeq(Stored,
                                 LAMBDA s : s.id # call[p].sessionId)]_vars

\* of two stored sessions the older one, second in the collection, was given an
\* image by updateSession, and deleteSession has then removed the newer one
C39_Witness ==
    /\ last.op = "deleteSession"
    /\ last.found
    /\ Len(Stored) = 1
    /\ Stored[1].id = 0
    /\ Stored[1].images # <<>>
    /\ now = 1

====
